---- MODULE Spec2Model ----
(***************************************************************************)
(* IceDeck V2 firmware (src/Firmware/main.py): the control loop of main(),  *)
(* MatrixScanner.scan, EncoderController.update and the display calls, as   *)
(* a state machine.  Time is the monotonic clock in milliseconds.           *)
(***************************************************************************)
EXTENDS Integers, Sequences, FiniteSets, TLC

\* ------------------------------------------------------------ constants
MATRIX_ROWS == 3
MATRIX_COLS == 3
DEBOUNCE_MS == 20
\* `current_time_check - last_time_update >= 1.0`, in milliseconds
REFRESH_MS == 1000
\* `last_time_update = current_time_check - 0.8`, in milliseconds
REWIND_MS == 800
\* "Return to time after 2 seconds", in milliseconds
REVERT_MS == 2000
\* `time.sleep(1)` before the loop: the clock when the loop starts
STARTUP_MS == 1000

Rows == 0 .. (MATRIX_ROWS - 1)
ColIdx == 0 .. (MATRIX_COLS - 1)
Cells == Rows \X ColIdx

\* keyboard.keymap: one layer, indexed by row * MATRIX_COLS + col
keymap ==
  << << "MEDIA_PREV_TRACK", "MEDIA_PLAY_PAUSE", "MEDIA_NEXT_TRACK",
        "BRIGHTNESS_DOWN", "NO", "BRIGHTNESS_UP",
        "LCTRL_LALT_M", "LCTRL_LALT_D", "LCTRL_LALT_SLASH" >> >>

\* -------------------------------------------------------------- bounds
\* the clock runs MaxWindows debounce windows past loop start (fast ticks)
MaxWindows == 3
\* the clock runs MaxSeconds refresh intervals past loop start (slow ticks)
MaxSeconds == 2
\* the encoder's hardware counter stays within -MaxPos .. MaxPos
MaxPos == 2
\* the environment moves a key, the knob or its button at most MaxEvents times
MaxEvents == 4
\* ... and at most MaxTaps times where the passes are long
MaxTaps == 1
\* a configured current_layer is drawn from 0 .. MaxLayer
MaxLayer == 1

\* tick durations (ms) the environment may take: one loop pass costs at
\* least the 1 ms sleep; a slow pass is one delayed by a display transfer
FastSteps == {10, 21}
SlowSteps == {100, 900}
\* ... and where only the knob is played
KnobSteps == {10}
\* the cells the environment presses and releases
Keys == { <<0, 0>>, <<1, 2>> }
\* the steps of the encoder's hardware counter between two polls
Turns == {-2, -1, 1}

\* "no time yet": below every clock value
None == 0 - 1

\* --------------------------------------------------------------- state
VARIABLES
  pc,                 \* position of the control loop
  now,                \* time.monotonic(), in ms
  exit_cause,         \* why the loop ended ("none" while it runs)
  \* MatrixScanner
  cols,               \* col.value of every column driver
  key_states,
  last_press_time,
  col_idx,            \* scan's column loop
  current_time,       \* scan's current_time
  pressed_keys,       \* scan's result, consumed by main's for loop
  \* EncoderController
  encoder_enabled,
  last_position,
  last_switch_state,
  rotation,           \* result of the last update()
  button_pressed,
  \* DisplayController
  display_enabled,
  \* main's variables
  current_layer,
  current_encoder_value,
  last_key_pressed,
  last_time_update,
  current_time_check,
  \* hardware (environment)
  raw,                \* level a row pin reads when the cell's column is high
  position,           \* encoder.position
  switch,             \* switch.value: pull-up, FALSE while the button is down
  \* what the loop did, for the properties
  sent,               \* keyboard.write calls of the current tick
  rendered,           \* display calls of the current tick
  hist                \* record of observations (see Init)

scanVars == << cols, key_states, last_press_time, col_idx, current_time, pressed_keys >>
encVars == << encoder_enabled, last_position, last_switch_state, rotation, button_pressed >>
mainVars == << current_layer, current_encoder_value, last_key_pressed,
               last_time_update, current_time_check, display_enabled >>
hwVars == << raw, position, switch >>
vars == << pc, now, exit_cause, scanVars, encVars, mainVars, hwVars, sent, rendered, hist >>

\* ---------------------------------------------------------------- Init
\* The state when main() reaches `while True`: the constructors have run
\* (either device may have failed to initialise), show_startup and the
\* one-second sleep are done, last_time_update was just read.
Boot(layers, encoder_ok, display_ok) ==
  /\ pc = "check"
  /\ now = STARTUP_MS
  /\ exit_cause = "none"
  /\ cols = [c \in ColIdx |-> FALSE]
  /\ key_states = [k \in Cells |-> FALSE]
  /\ last_press_time = [k \in Cells |-> 0]
  /\ col_idx = 0
  /\ current_time = 0
  /\ pressed_keys = << >>
  /\ encoder_enabled \in encoder_ok
  /\ last_position = 0
  /\ last_switch_state = TRUE
  /\ rotation = 0
  /\ button_pressed = FALSE
  /\ display_enabled \in display_ok
  /\ current_layer \in layers
  /\ current_encoder_value = 0
  /\ last_key_pressed = "None"
  /\ last_time_update = STARTUP_MS
  /\ current_time_check = STARTUP_MS
  /\ raw = [k \in Cells |-> FALSE]
  /\ position = 0
  /\ switch = TRUE
  /\ sent = << >>
  /\ rendered = << >>
  /\ hist = [ flip_time |-> [k \in Cells |-> None],   \* time of the last accepted flip
              raw_since |-> [k \in Cells |-> 0],      \* time of the last raw change
              flips_since |-> [k \in Cells |-> 0],    \* accepted flips since then
              differed |-> [k \in Cells |-> FALSE],   \* that change left raw # logical
              events |-> 0,              \* key, knob and button changes so far
              last_clock |-> None,       \* time of the last show_time call
              clock_gap |-> None,        \* between the last two, no action between
              clock_count |-> 0,         \* show_time calls since loop start
              acted |-> FALSE,           \* a key action or click has rewound the timer
              acted_since_clock |-> FALSE,
              last_action |-> None,      \* time of the last key action or click
              last_action_kind |-> "none",
              sampled_level |-> TRUE,    \* switch level at the last poll that read it
              dir_sum |-> 0,             \* sum of the directions update() returned
              poll |-> [kind |-> "boot", pos |-> 0, prev |-> 0,
                        level |-> TRUE, prev_level |-> TRUE,
                        after_missed |-> FALSE] ]

\* current_layer = 0 (line 318), both devices initialised
Init == Boot({0}, {TRUE}, {TRUE})

\* ------------------------------------------------ MatrixScanner.scan
\* line 105/107: the press branch is taken and the transition accepted
PressAccepted(is_pressed, state, last, t) ==
  is_pressed /\ ~state /\ t - last > DEBOUNCE_MS

\* the release test with its comparison turned around
ReleaseAcceptedInWindow(is_pressed, state, last, t) ==
  ~is_pressed /\ state /\ t - last < DEBOUNCE_MS

\* line 112/114: the release branch is taken and the transition accepted
ReleaseAccepted(is_pressed, state, last, t) ==
  ~is_pressed /\ state /\ t - last > DEBOUNCE_MS

\* lines 109 and 115: last_press_time after the cell's debounce step (only
\* the press branch stores the time)
StampAfter(is_pressed, state, last, t) ==
  IF PressAccepted(is_pressed, state, last, t) THEN t ELSE last

\* lines 108 and 115: key_states after the cell's debounce step
StateAfter(is_pressed, state, last, t) ==
  IF PressAccepted(is_pressed, state, last, t) THEN TRUE
  ELSE IF ReleaseAccepted(is_pressed, state, last, t) THEN FALSE
  ELSE state

\* the cells `for row_idx ...` has read when it stops after n rows of column c
ReadCells(c, n) == { k \in Cells : k[2] = c /\ k[1] < n }

\* line 110: the (row, col) pairs rows r .. n-1 of column c append
RECURSIVE Appended(_, _, _)
Appended(c, r, n) ==
  IF r >= n THEN << >>
  ELSE (IF PressAccepted(raw[<<r, c>>], key_states[<<r, c>>],
                         last_press_time[<<r, c>>], current_time)
        THEN << <<r, c>> >> ELSE << >>) \o Appended(c, r + 1, n)

Flipped(k) ==
  StateAfter(raw[k], key_states[k], last_press_time[k], current_time) # key_states[k]

\* lines 101-115 for column col_idx, the first n rows (n = MATRIX_ROWS: all)
ReadRowsEffect(n) ==
  LET done == ReadCells(col_idx, n) IN
  /\ key_states' = [k \in Cells |->
        IF k \in done
        THEN StateAfter(raw[k], key_states[k], last_press_time[k], current_time)
        ELSE key_states[k]]
  /\ last_press_time' = [k \in Cells |->
        IF k \in done
        THEN StampAfter(raw[k], key_states[k], last_press_time[k], current_time)
        ELSE last_press_time[k]]
  /\ pressed_keys' = pressed_keys \o Appended(col_idx, 0, n)
  /\ hist' = [hist EXCEPT
        !.flip_time = [k \in Cells |->
            IF k \in done /\ Flipped(k) THEN current_time ELSE hist.flip_time[k]],
        !.flips_since = [k \in Cells |->
            IF k \in done /\ Flipped(k)
            THEN hist.flips_since[k] + 1 ELSE hist.flips_since[k]]]

\* line 95 (and the settle delay of line 98)
AssertColumn ==
  /\ pc = "col_high"
  /\ cols' = [cols EXCEPT ![col_idx] = TRUE]
  /\ pc' = "read_rows"
  /\ UNCHANGED << now, exit_cause, key_states, last_press_time, col_idx, current_time,
                  pressed_keys, encVars, mainVars, hwVars, sent, rendered, hist >>

\* lines 101-115: every row of the asserted column is read and debounced
ReadRows ==
  /\ pc = "read_rows"
  /\ ReadRowsEffect(MATRIX_ROWS)
  /\ pc' = "col_low"
  /\ UNCHANGED << now, exit_cause, cols, col_idx, current_time,
                  encVars, mainVars, hwVars, sent, rendered >>

\* line 102 raises at row n: nothing in scan or main catches it, so it
\* reaches the handler of lines 403-406 and the program ends
ReadRowsFault(n) ==
  /\ pc = "read_rows"
  /\ ReadRowsEffect(n)
  /\ pc' = "exited"
  /\ exit_cause' = "row_read"
  /\ UNCHANGED << now, cols, col_idx, current_time,
                  encVars, mainVars, hwVars, sent, rendered >>

\* the column loop without line 118: the column is left asserted
DeassertColumnSkipped ==
  /\ pc = "col_low"
  /\ cols' = cols
  /\ IF col_idx + 1 < MATRIX_COLS
     THEN /\ col_idx' = col_idx + 1
          /\ pc' = "col_high"
     ELSE /\ col_idx' = col_idx
          /\ pc' = IF pressed_keys = << >> THEN "encoder" ELSE "keys"
  /\ UNCHANGED << now, exit_cause, key_states, last_press_time, current_time,
                  pressed_keys, encVars, mainVars, hwVars, sent, rendered, hist >>

\* line 118, then the next column, or line 120 and main's loop of line 351
DeassertColumn ==
  /\ pc = "col_low"
  /\ cols' = [cols EXCEPT ![col_idx] = FALSE]
  /\ IF col_idx + 1 < MATRIX_COLS
     THEN /\ col_idx' = col_idx + 1
          /\ pc' = "col_high"
     ELSE /\ col_idx' = col_idx
          /\ pc' = IF pressed_keys = << >> THEN "encoder" ELSE "keys"
  /\ UNCHANGED << now, exit_cause, key_states, last_press_time, current_time,
                  pressed_keys, encVars, mainVars, hwVars, sent, rendered, hist >>

\* ------------------------------------------------- DisplayController
\* show_time / show_status (lines 224-279): a disabled display returns at
\* once, a drawing error is caught and printed; the call always returns
\* show_time / show_status without the test of self.enabled
OutcomeIgnoringEnabled(ok) == IF ok THEN "shown" ELSE "failed"

Outcome(ok) ==
  IF ~display_enabled THEN "disabled" ELSE IF ok THEN "shown" ELSE "failed"

Shown(view, by, ok) == [view |-> view, by |-> by, outcome |-> Outcome(ok)]

\* ------------------------------------------------------------- main
\* the refresh test with a strict comparison
ClockDueStrict(t, last) == t - last > REFRESH_MS

\* line 344: the periodic clock refresh is due
ClockDue(t, last) == t - last >= REFRESH_MS

\* the timestamp rewound by the whole refresh interval
RewoundWholeInterval(t) == t - REFRESH_MS

\* lines 366 and 389: the timestamp a key action or click leaves
Rewound(t) == t - REWIND_MS

\* lines 343-349: the time check, the clock refresh, and scan's first lines
CheckClock(ok) ==
  /\ pc = "check"
  /\ current_time_check' = now
  /\ IF ClockDue(now, last_time_update)
     THEN /\ rendered' = << Shown("Clock", "periodic", ok) >>
          /\ last_time_update' = now
          /\ hist' = [hist EXCEPT
                !.last_clock = now,
                !.clock_gap = IF hist.last_clock # None /\ ~hist.acted_since_clock
                              THEN now - hist.last_clock ELSE None,
                !.clock_count = hist.clock_count + 1,
                !.acted_since_clock = FALSE]
     ELSE /\ rendered' = << >>
          /\ UNCHANGED << last_time_update, hist >>
  /\ sent' = << >>
  /\ pressed_keys' = << >>
  /\ current_time' = now
  /\ col_idx' = 0
  /\ pc' = "col_high"
  /\ UNCHANGED << now, exit_cause, cols, key_states, last_press_time, encVars,
                  current_layer, current_encoder_value, last_key_pressed,
                  display_enabled, hwVars >>

\* the layer test off by one
LayerValidOffByOne(layer) == layer <= Len(keymap)

\* line 356: the active layer exists
LayerValid(layer) == layer < Len(keymap)

\* the flat index taken column by column
KeyIdxByColumn(row, col) == col * MATRIX_ROWS + row

\* line 353
KeyIdx(row, col) == row * MATRIX_COLS + col

Acted(kind) ==
  [hist EXCEPT !.acted = TRUE, !.acted_since_clock = TRUE,
               !.last_action = current_time_check, !.last_action_kind = kind]

\* lines 351-366, one pass of `for row, col in pressed_keys`.  Indexing
\* keymap past its end (line 357) raises IndexError, which ends the program
HandleKey(ok) ==
  /\ pc = "keys"
  /\ pressed_keys # << >>
  /\ LET row == Head(pressed_keys)[1]
         col == Head(pressed_keys)[2]
     IN IF ~LayerValid(current_layer)
        THEN /\ pressed_keys' = Tail(pressed_keys)
             /\ pc' = IF Tail(pressed_keys) = << >> THEN "encoder" ELSE "keys"
             /\ UNCHANGED << exit_cause, sent, last_key_pressed, rendered,
                             last_time_update, hist >>
        ELSE IF current_layer >= Len(keymap)
        THEN /\ pc' = "exited"
             /\ exit_cause' = "index"
             /\ UNCHANGED << pressed_keys, sent, last_key_pressed, rendered,
                             last_time_update, hist >>
        ELSE LET key == keymap[current_layer + 1][KeyIdx(row, col) + 1] IN
             /\ sent' = Append(sent, key)
             /\ last_key_pressed' = key
             /\ rendered' = Append(rendered, Shown("Status", "key", ok))
             /\ last_time_update' = Rewound(current_time_check)
             /\ hist' = Acted("key")
             /\ pressed_keys' = Tail(pressed_keys)
             /\ pc' = IF Tail(pressed_keys) = << >> THEN "encoder" ELSE "keys"
             /\ exit_cause' = exit_cause
  /\ UNCHANGED << now, cols, key_states, last_press_time, col_idx,
                  current_time, encVars, current_layer, current_encoder_value,
                  current_time_check, display_enabled, hwVars >>

\* line 358 raises: keyboard.write is not guarded, the program ends
HandleKeyFault ==
  /\ pc = "keys"
  /\ pressed_keys # << >>
  /\ LayerValid(current_layer)
  /\ pc' = "exited"
  /\ exit_cause' = "write"
  /\ UNCHANGED << now, scanVars, encVars, mainVars, hwVars, sent, rendered, hist >>

\* ------------------------------------------ EncoderController.update
\* the position delta itself reported as the direction
DirectionDelta(cur, last) == cur - last

\* lines 156-161: the direction reported
Direction(cur, last) == IF cur > last THEN 1 ELSE IF cur < last THEN -1 ELSE 0

\* lines 158 and 161: last_position after the comparison
PositionAfter(cur, last) == IF cur > last \/ cur < last THEN cur ELSE last

\* line 165: a click is reported (the switch is active-low)
ClickEdge(cur, last) == ~cur /\ last

\* line 167 left out: only a release is stored
SwitchAfterReleaseOnly(cur, last) == IF cur /\ ~last THEN cur ELSE last

\* lines 167 and 169: last_switch_state after the comparison
SwitchAfter(cur, last) ==
  IF ~cur /\ last THEN cur ELSE IF cur /\ ~last THEN cur ELSE last

\* update without the test of line 147: the hardware is read whatever
\* self.enabled says
EncoderUpdateUnguarded(fail) ==
  [rotation |-> IF fail = "position" THEN 0
                ELSE Direction(position, last_position),
   button_pressed |-> fail = "none" /\ ClickEdge(switch, last_switch_state),
   last_position |-> IF fail = "position" THEN last_position
                     ELSE PositionAfter(position, last_position),
   last_switch_state |-> IF fail = "none"
                         THEN SwitchAfter(switch, last_switch_state)
                         ELSE last_switch_state]

\* update with the button looked at only when the knob did not turn
EncoderUpdateButtonMasked(fail) ==
  IF ~encoder_enabled
  THEN [rotation |-> 0, button_pressed |-> FALSE,
        last_position |-> last_position, last_switch_state |-> last_switch_state]
  ELSE [rotation |-> IF fail = "position" THEN 0
                     ELSE Direction(position, last_position),
        button_pressed |-> /\ fail = "none"
                           /\ Direction(position, last_position) = 0
                           /\ ClickEdge(switch, last_switch_state),
        last_position |-> IF fail = "position" THEN last_position
                          ELSE PositionAfter(position, last_position),
        last_switch_state |-> IF fail = "none"
                              THEN SwitchAfter(switch, last_switch_state)
                              ELSE last_switch_state]

\* update storing the position though its read raised
EncoderUpdateCommitsOnFault(fail) ==
  IF ~encoder_enabled
  THEN [rotation |-> 0, button_pressed |-> FALSE,
        last_position |-> last_position, last_switch_state |-> last_switch_state]
  ELSE [rotation |-> IF fail = "position" THEN 0
                     ELSE Direction(position, last_position),
        button_pressed |-> fail = "none" /\ ClickEdge(switch, last_switch_state),
        last_position |-> PositionAfter(position, last_position),
        last_switch_state |-> IF fail = "none"
                              THEN SwitchAfter(switch, last_switch_state)
                              ELSE last_switch_state]

\* lines 145-174.  fail names the read that raises ("none", "position",
\* "switch"); the except clause of line 171 keeps what was assigned before
EncoderUpdate(fail) ==
  IF ~encoder_enabled
  THEN [rotation |-> 0, button_pressed |-> FALSE,
        last_position |-> last_position, last_switch_state |-> last_switch_state]
  ELSE [rotation |-> IF fail = "position" THEN 0
                     ELSE Direction(position, last_position),
        button_pressed |-> fail = "none" /\ ClickEdge(switch, last_switch_state),
        last_position |-> IF fail = "position" THEN last_position
                          ELSE PositionAfter(position, last_position),
        last_switch_state |-> IF fail = "none"
                              THEN SwitchAfter(switch, last_switch_state)
                              ELSE last_switch_state]

\* poll p failed to read a change that was there: a moved position or a
\* button gone down
Missed(p) ==
  \/ p.kind = "position" /\ (p.pos # p.prev \/ (~p.level /\ p.prev_level))
  \/ p.kind = "switch" /\ ~p.level /\ p.prev_level

\* what the poll saw: the hardware's values, the stored ones before it, how
\* it ended, and whether the poll before it missed a change
PollSeen(fail) ==
  [hist EXCEPT
     !.poll = [kind |-> IF ~encoder_enabled THEN "disabled"
                        ELSE IF fail = "none" THEN "ok" ELSE fail,
               pos |-> position, prev |-> last_position,
               level |-> switch, prev_level |-> hist.sampled_level,
               after_missed |-> Missed(hist.poll)],
     !.sampled_level = IF encoder_enabled /\ fail = "none"
                       THEN switch ELSE hist.sampled_level,
     !.dir_sum = hist.dir_sum + EncoderUpdate(fail).rotation]

\* the counter following the position instead of the direction
CounterByPosition(rot, value) == value + (position - last_position)

\* lines 372-382: the counter after the rotation branches
CounterAfter(rot, value) ==
  IF rot > 0 THEN value + 1 ELSE IF rot < 0 THEN value - 1 ELSE value

\* lines 374 and 380: the volume action of a rotation
VolumeKeys(rot) ==
  IF rot > 0 THEN << "AUDIO_VOL_UP" >>
  ELSE IF rot < 0 THEN << "AUDIO_VOL_DOWN" >> ELSE << >>

\* lines 369-389: the encoder is polled and its events handled.  wfail is the
\* keyboard.write call that raises (0: none, 1: the volume key, 2: mute)
HandleEncoder(fail, wfail, ok) ==
  /\ pc = "encoder"
  /\ LET u == EncoderUpdate(fail)
         seen == PollSeen(fail) IN
     /\ rotation' = u.rotation
     /\ button_pressed' = u.button_pressed
     /\ last_position' = u.last_position
     /\ last_switch_state' = u.last_switch_state
     /\ wfail = 1 => u.rotation # 0
     /\ wfail = 2 => u.button_pressed
     /\ IF wfail = 1
        THEN /\ pc' = "exited"
             /\ exit_cause' = "write"
             /\ hist' = seen
             /\ UNCHANGED << sent, current_encoder_value, rendered, last_time_update >>
        ELSE /\ current_encoder_value' = CounterAfter(u.rotation, current_encoder_value)
             /\ IF wfail = 2
                THEN /\ pc' = "exited"
                     /\ exit_cause' = "write"
                     /\ sent' = sent \o VolumeKeys(u.rotation)
                     /\ hist' = seen
                     /\ UNCHANGED << rendered, last_time_update >>
                ELSE /\ pc' = "sleep"
                     /\ exit_cause' = exit_cause
                     /\ IF u.button_pressed
                        THEN /\ sent' = (sent \o VolumeKeys(u.rotation)) \o << "AUDIO_MUTE" >>
                             /\ rendered' = Append(rendered, Shown("Status", "encoder", ok))
                             /\ last_time_update' = Rewound(current_time_check)
                             /\ hist' = [seen EXCEPT
                                   !.acted = TRUE, !.acted_since_clock = TRUE,
                                   !.last_action = current_time_check,
                                   !.last_action_kind = "click"]
                        ELSE /\ sent' = sent \o VolumeKeys(u.rotation)
                             /\ hist' = seen
                             /\ UNCHANGED << rendered, last_time_update >>
  /\ UNCHANGED << now, scanVars, encoder_enabled, current_layer, last_key_pressed,
                  current_time_check, display_enabled, hwVars >>

\* line 392, and the time the pass took: the next pass starts dt later
Sleep(dt, limit) ==
  /\ pc = "sleep"
  /\ now + dt <= limit
  /\ now' = now + dt
  /\ pc' = "check"
  /\ UNCHANGED << exit_cause, scanVars, encVars, mainVars, hwVars, sent, rendered, hist >>

\* KeyboardInterrupt (line 401) arrives wherever the loop is; the handler
\* prints and the program ends, the pins left as they are
Interrupt ==
  /\ pc # "exited"
  /\ pc' = "exited"
  /\ exit_cause' = "interrupt"
  /\ UNCHANGED << now, scanVars, encVars, mainVars, hwVars, sent, rendered, hist >>

\* ------------------------------------------------------ environment
\* a key goes down or up (its switch connects row and column)
EnvKey(k, budget) ==
  /\ pc = "sleep"
  /\ hist.events < budget
  /\ raw' = [raw EXCEPT ![k] = ~raw[k]]
  /\ hist' = [hist EXCEPT !.events = hist.events + 1,
                          !.raw_since[k] = now,
                          !.flips_since[k] = 0,
                          !.differed[k] = (~raw[k]) # key_states[k]]
  /\ UNCHANGED << pc, now, exit_cause, scanVars, encVars, mainVars, position, switch,
                  sent, rendered >>

\* the knob turns: rotaryio counts d steps
EnvTurn(d, budget) ==
  /\ pc = "sleep"
  /\ hist.events < budget
  /\ position + d \in (0 - MaxPos) .. MaxPos
  /\ position' = position + d
  /\ hist' = [hist EXCEPT !.events = hist.events + 1]
  /\ UNCHANGED << pc, now, exit_cause, scanVars, encVars, mainVars, raw, switch,
                  sent, rendered >>

\* the knob's button goes down or up
EnvSwitch(budget) ==
  /\ pc = "sleep"
  /\ hist.events < budget
  /\ switch' = ~switch
  /\ hist' = [hist EXCEPT !.events = hist.events + 1]
  /\ UNCHANGED << pc, now, exit_cause, scanVars, encVars, mainVars, raw, position,
                  sent, rendered >>

\* ------------------------------------------------- specifications
\* one pass of the loop without its key handling: the encoder's reads fail
\* as `fails` allows, the display's drawing succeeds as `oks` allows
Pass(fails, oks) ==
  \/ \E ok \in oks : CheckClock(ok)
  \/ AssertColumn
  \/ ReadRows
  \/ DeassertColumn
  \/ \E ok \in oks, fail \in fails : HandleEncoder(fail, 0, ok)

\* the keys are played, the passes are short; a row read or a key's write
\* may fail and the program may be interrupted
Next ==
  \/ Pass({"none"}, BOOLEAN)
  \/ \E ok \in BOOLEAN : HandleKey(ok)
  \/ HandleKeyFault
  \/ \E n \in Rows : ReadRowsFault(n)
  \/ Interrupt
  \/ \E dt \in FastSteps : Sleep(dt, STARTUP_MS + MaxWindows * DEBOUNCE_MS)
  \/ \E k \in Keys : EnvKey(k, MaxEvents)

Spec == Init /\ [][Next]_vars

\* the encoder may have failed to initialise (lines 141-143)
InitEncoder == Boot({0}, BOOLEAN, {TRUE})

\* the knob is played, its reads and the writes may fail
NextEncoder ==
  \/ Pass({"none", "position", "switch"}, {TRUE})
  \/ \E fail \in {"none", "switch"}, wfail \in 1 .. 2 : HandleEncoder(fail, wfail, TRUE)
  \/ \E dt \in KnobSteps : Sleep(dt, STARTUP_MS + MaxWindows * DEBOUNCE_MS)
  \/ \E d \in Turns : EnvTurn(d, MaxEvents)
  \/ EnvSwitch(MaxEvents)

SpecEncoder == InitEncoder /\ [][NextEncoder]_vars

\* one key and the knob's button are played, the passes are long
NextDisplay ==
  \/ Pass({"none"}, {TRUE})
  \/ HandleKey(TRUE)
  \/ \E dt \in SlowSteps : Sleep(dt, STARTUP_MS + MaxSeconds * REFRESH_MS)
  \/ EnvKey(<<0, 0>>, MaxTaps)
  \/ EnvSwitch(MaxTaps)

SpecDisplay == Init /\ [][NextDisplay]_vars

\* current_layer as a configuration may set it, past the keymap's end too
InitLayers == Boot(0 .. MaxLayer, {TRUE}, {TRUE})

\* the keys are played, the passes are short
NextLayers ==
  \/ Pass({"none"}, {TRUE})
  \/ HandleKey(TRUE)
  \/ \E dt \in FastSteps : Sleep(dt, STARTUP_MS + MaxWindows * DEBOUNCE_MS)
  \/ \E k \in Keys : EnvKey(k, MaxEvents)

SpecLayers == InitLayers /\ [][NextLayers]_vars

\* the display may have failed to initialise (lines 198-203), and every
\* drawing may fail
InitRender == Boot({0}, {TRUE}, BOOLEAN)

\* one key and the knob's button are played, the passes are long
NextRender ==
  \/ Pass({"none"}, BOOLEAN)
  \/ \E ok \in BOOLEAN : HandleKey(ok)
  \/ \E dt \in SlowSteps : Sleep(dt, STARTUP_MS + MaxSeconds * REFRESH_MS)
  \/ EnvKey(<<0, 0>>, MaxTaps)
  \/ EnvSwitch(MaxTaps)

SpecRender == InitRender /\ [][NextRender]_vars

\* ---------------------------------------------------------- properties
Scanning == pc \in {"col_high", "read_rows", "col_low"}

\* C1: a cell's debounced state flips at most once within any span shorter
\* than the debounce window: an accepted flip is at least DEBOUNCE_MS after
\* the cell's previous accepted flip.
C1_OneFlipPerWindow ==
  [][\A k \in Cells :
       (key_states'[k] # key_states[k] /\ hist.flip_time[k] # None)
         => current_time - hist.flip_time[k] >= DEBOUNCE_MS]_vars

\* C2: once a scan has run more than DEBOUNCE_MS after a cell's raw level
\* last changed, the cell's logical state is that level, and it flipped
\* exactly once since the change if the change made them differ (never if
\* it did not).
C2_StableAccepted ==
  \A k \in Cells :
    (~Scanning /\ pc # "exited" /\ current_time - hist.raw_since[k] > DEBOUNCE_MS)
      => /\ key_states[k] = raw[k]
         /\ hist.flips_since[k] = (IF hist.differed[k] THEN 1 ELSE 0)

\* a release, held, was accepted once by a scan past the window
C2_Witness ==
  \E k \in Keys :
    /\ pc = "sleep"
    /\ hist.raw_since[k] > 0
    /\ current_time - hist.raw_since[k] > DEBOUNCE_MS
    /\ hist.differed[k]
    /\ ~raw[k] /\ ~key_states[k]
    /\ hist.flips_since[k] = 1

\* C3: after a key action at time t no Clock render is issued until
\* REVERT_MS (2 s) have passed since t.
C3_NoClockBeforeRevert ==
  (hist.last_action_kind = "key" /\ hist.last_clock > hist.last_action)
    => hist.last_clock - hist.last_action >= REVERT_MS

\* C4: a tick whose encoder poll reports a nonzero direction issues a Status
\* render for it and restarts the clock-revert timing from that tick.
C4_RotationShowsStatus ==
  (pc = "sleep" /\ rotation # 0)
    => /\ \E i \in 1 .. Len(rendered) :
            rendered[i].view = "Status" /\ rendered[i].by = "encoder"
       /\ last_time_update = Rewound(current_time_check)

\* C5: whenever the loop has exited, every column driver is deasserted.
C5_ColumnsLowAtExit ==
  pc = "exited" => \A c \in ColIdx : ~cols[c]

\* C6: a failed row-pin read never terminates the control loop.
C6_RowFaultNotFatal ==
  ~(pc = "exited" /\ exit_cause = "row_read")

Sign(x) == IF x > 0 THEN 1 ELSE IF x < 0 THEN 0 - 1 ELSE 0

VolumeSent ==
  \E i \in 1 .. Len(sent) : sent[i] \in {"AUDIO_VOL_UP", "AUDIO_VOL_DOWN"}

\* C7: a poll that read the position reports sign(rawPosition - lastPosition);
\* on a zero delta lastPosition stays and no volume action is sent, on a
\* nonzero delta lastPosition becomes rawPosition.
C7_DirectionIsSign ==
  hist.poll.kind \in {"ok", "switch"}
    => /\ rotation = Sign(hist.poll.pos - hist.poll.prev)
       /\ last_position = hist.poll.pos
       /\ hist.poll.pos = hist.poll.prev => last_position = hist.poll.prev
       /\ (pc = "sleep" /\ hist.poll.pos = hist.poll.prev) => ~VolumeSent

\* the knob went two steps back between polls: one -1 is reported
C7_Witness ==
  /\ pc = "sleep"
  /\ hist.poll.kind = "ok"
  /\ hist.poll.pos - hist.poll.prev = 0 - 2
  /\ rotation = 0 - 1
  /\ last_position = hist.poll.pos

\* C8: a poll that read the button reports a click exactly when the button
\* is down and was up at the previous poll that read it (up at boot); a
\* poll that did not read it reports none.
C8_ClickOnEdge ==
  /\ hist.poll.kind = "ok"
       => (button_pressed <=> (~hist.poll.level /\ hist.poll.prev_level))
  /\ hist.poll.kind \in {"boot", "disabled", "position", "switch"} => ~button_pressed

\* the second poll of a held button: no click
C8_Witness ==
  /\ pc = "sleep"
  /\ hist.poll.kind = "ok"
  /\ ~hist.poll.level /\ ~hist.poll.prev_level
  /\ ~button_pressed

\* C9: with current_layer >= len(keymap) a Pressed edge dispatches nothing
\* and the loop goes on.
C9_LayerOutOfRangeNoOp ==
  current_layer >= Len(keymap) => (sent = << >> /\ pc # "exited" /\ ~hist.acted)

\* a press was accepted in this tick under an out-of-range layer, and handled
C9_Witness ==
  /\ current_layer >= Len(keymap)
  /\ pc = "encoder"
  /\ \E k \in Keys : key_states[k] /\ hist.flip_time[k] = current_time
  /\ pressed_keys = << >>
  /\ sent = << >>

Elapsed == current_time_check - STARTUP_MS

\* C10 as stated: with no action since loop start, the Clock renders issued
\* number the full refresh intervals elapsed.
C10_OnePerInterval ==
  ~hist.acted => hist.clock_count = Elapsed \div REFRESH_MS

\* C10 amended: with no action between, two consecutive Clock renders are at
\* least REFRESH_MS apart; after a tick's check the last Clock render (or
\* loop start) is less than REFRESH_MS back; so the renders number at most
\* the full intervals elapsed.
C10_AtMostOnePerInterval ==
  /\ hist.clock_gap # None => hist.clock_gap >= REFRESH_MS
  /\ ~hist.acted_since_clock
       => current_time_check
            - (IF hist.last_clock = None THEN STARTUP_MS ELSE hist.last_clock)
          < REFRESH_MS
  /\ ~hist.acted => hist.clock_count <= Elapsed \div REFRESH_MS

\* two Clock renders exactly one interval apart, no action so far
C10_Witness ==
  /\ ~hist.acted
  /\ hist.clock_count = 2
  /\ hist.clock_gap = REFRESH_MS


\* the clock view comes back this long after an action
RESUME_MS == REFRESH_MS - REWIND_MS

C12_DisabledEncoderInert ==
  /\ [](~encoder_enabled =>
          /\ rotation = 0 /\ ~button_pressed
          /\ hist.poll.kind \in {"boot", "disabled"}
          /\ last_position = 0 /\ last_switch_state
          /\ sent = << >> /\ current_encoder_value = 0
          /\ ~hist.acted
          /\ pc # "exited")
  /\ [][~encoder_enabled => ~encoder_enabled']_vars

\* the knob was turned and its button pressed, the disabled encoder was
\* polled, and the loop went on to a later tick
C12_Witness ==
  /\ ~encoder_enabled
  /\ hist.poll.kind = "disabled"
  /\ hist.poll.pos # 0 /\ ~hist.poll.level
  /\ pc = "col_high"


\* C13: a keyboard.write that fails while an action is dispatched never
\* ends the control loop.
C13_WriteFaultNotFatal ==
  ~(pc = "exited" /\ exit_cause = "write")


\* the cells whose press this tick's scan accepted
PressedNow == { k \in Cells : key_states[k] /\ hist.flip_time[k] = current_time }

KeysHandled == pc \in {"encoder", "sleep"}

Flow ==
  { <<"check", "col_high">>, <<"col_high", "read_rows">>, <<"read_rows", "col_low">>,
    <<"col_low", "col_high">>, <<"col_low", "keys">>, <<"col_low", "encoder">>,
    <<"keys", "encoder">>, <<"encoder", "sleep">>, <<"sleep", "check">> }

\* a render of the current tick drew nothing
Unshown == \E i \in 1 .. Len(rendered) : rendered[i].outcome # "shown"

KeysSent ==
  Cardinality({ i \in 1 .. Len(sent) :
                  \E j \in 1 .. Len(keymap[1]) : sent[i] = keymap[1][j] })

\* C15: whether a render draws, fails or finds the display disabled, the
\* loop never ends and every step of a tick is followed by the tick's next
\* step; a tick with such a render has, when it sleeps, scanned every column,
\* dispatched each press its scan accepted and the mute of a click its poll
\* reported; a display that failed to initialise draws nothing.
C15_RenderFaultsHarmless ==
  /\ [](pc # "exited")
  /\ [][pc' # pc => <<pc, pc'>> \in Flow]_vars
  /\ []((Unshown /\ pc = "sleep") =>
          /\ current_time = current_time_check
          /\ col_idx = MATRIX_COLS - 1
          /\ KeysSent = Cardinality(PressedNow)
          /\ button_pressed <=> (\E i \in 1 .. Len(sent) : sent[i] = "AUDIO_MUTE"))
  /\ [](~display_enabled =>
          \A i \in 1 .. Len(rendered) : rendered[i].outcome = "disabled")

\* the Clock render and the Status render of a key both failed in one tick:
\* the key's action was dispatched and the tick went on to its sleep
C15_Witness ==
  /\ pc = "sleep"
  /\ display_enabled
  /\ Len(rendered) = 2
  /\ rendered[1].view = "Clock" /\ rendered[1].outcome = "failed"
  /\ rendered[2].view = "Status" /\ rendered[2].outcome = "failed"
  /\ sent = << "MEDIA_PREV_TRACK" >>


\* C16: a cell's last_press_time is the time of the scan that accepted the
\* cell's most recent flip, press or release.
C16_StampIsLastFlip ==
  \A k \in Cells :
    hist.flip_time[k] # None => last_press_time[k] = hist.flip_time[k]


\* the columns driven high
Asserted == { c \in ColIdx : cols[c] }

\* C17: never more than one column is asserted; while the rows are read
\* (and until line 118) exactly the scanned column is; before a column is
\* asserted and whenever the loop is outside scan, none is.
C17_OneColumnAtATime ==
  /\ Cardinality(Asserted) <= 1
  /\ pc \in {"read_rows", "col_low"} => Asserted = {col_idx}
  /\ pc \in {"check", "col_high", "keys", "encoder", "sleep"} => Asserted = {}

\* the rows of the second column are about to be read: it alone is asserted
C17_Witness ==
  /\ pc = "read_rows"
  /\ col_idx = 1
  /\ Asserted = {1}


\* C18: a poll that read a changed position and a button gone from up to
\* down reports both the direction and the click, and the tick dispatches
\* the volume action and then the mute action.
C18_TurnAndClickTogether ==
  (/\ hist.poll.kind = "ok"
   /\ hist.poll.pos # hist.poll.prev
   /\ ~hist.poll.level /\ hist.poll.prev_level)
    => /\ rotation = Sign(hist.poll.pos - hist.poll.prev)
       /\ button_pressed
       /\ pc = "sleep" => sent = VolumeKeys(rotation) \o << "AUDIO_MUTE" >>
       /\ pc = "sleep" => Len(sent) = 2

\* the knob went up and the button down between two polls: volume up, then
\* mute, in one tick
C18_Witness ==
  /\ pc = "sleep"
  /\ hist.poll.kind = "ok"
  /\ hist.poll.pos > hist.poll.prev
  /\ ~hist.poll.level /\ hist.poll.prev_level
  /\ sent = << "AUDIO_VOL_UP", "AUDIO_MUTE" >>


VolumeCount ==
  Cardinality({ i \in 1 .. Len(sent) : sent[i] \in {"AUDIO_VOL_UP", "AUDIO_VOL_DOWN"} })

\* C19: the step that polls the encoder and completes changes the counter
\* by exactly the direction the poll returned, and no other step changes
\* it; a tick that has polled has dispatched one volume action if that
\* direction is nonzero and none if it is zero; while the loop runs the
\* counter is the sum of the directions returned so far.
C19_CounterFollowsDirection ==
  /\ [][(pc = "encoder" /\ pc' = "sleep")
          => current_encoder_value' = current_encoder_value + rotation']_vars
  /\ [][pc # "encoder" => current_encoder_value' = current_encoder_value]_vars
  /\ [](pc = "sleep" =>
          /\ rotation \in {0 - 1, 0, 1}
          /\ VolumeCount = (IF rotation # 0 THEN 1 ELSE 0))
  /\ [](pc # "exited" => current_encoder_value = hist.dir_sum)

\* the position went 0, 1, 2 over the polls: the counter is 2 after a poll
\* that returned +1 and dispatched one volume action
C19_Witness ==
  /\ pc = "sleep"
  /\ hist.poll.kind = "ok"
  /\ hist.poll.prev = 1 /\ hist.poll.pos = 2
  /\ rotation = 1
  /\ current_encoder_value = 2
  /\ sent = << "AUDIO_VOL_UP" >>


\* C20: a poll whose position read fails returns (0, FALSE), leaves
\* last_position and last_switch_state as they were and does not end the
\* loop; one whose button read fails returns no click and leaves
\* last_switch_state as it was; the successful poll after a poll that missed
\* a change reports the position and the button against those stored values
\* and stores what it read, so the change is not reported again.
C20_FailedReadIsNoChange ==
  /\ [][(pc = "encoder" /\ hist'.poll.kind = "position")
          => /\ last_position' = last_position
             /\ last_switch_state' = last_switch_state
             /\ rotation' = 0 /\ ~button_pressed'
             /\ pc' = "sleep"]_vars
  /\ [][(pc = "encoder" /\ hist'.poll.kind = "switch")
          => /\ last_switch_state' = last_switch_state
             /\ ~button_pressed'
             /\ pc' = "exited" => rotation' # 0]_vars
  /\ []((hist.poll.kind = "ok" /\ hist.poll.after_missed) =>
          /\ rotation = Sign(hist.poll.pos - hist.poll.prev)
          /\ button_pressed <=> (~hist.poll.level /\ hist.poll.prev_level)
          /\ last_position = hist.poll.pos
          /\ last_switch_state = hist.poll.level)
  /\ [](last_switch_state = hist.sampled_level)

\* a poll failed while the button was down and unread; the next poll
\* succeeded and reported the click, and the tick dispatched the mute
C20_Witness ==
  /\ pc = "sleep"
  /\ hist.poll.kind = "ok"
  /\ hist.poll.after_missed
  /\ button_pressed
  /\ hist.events = 1
  /\ sent = << "AUDIO_MUTE" >>

====
